---- MODULE Spec2Model ----
(***************************************************************************)
(* The loader stub of weaver (loader-stub/src): one launcher process that  *)
(* starts the overload and the base payload as child processes, optionally *)
(* runs a health supervisor thread over a shared health region, terminates *)
(* the overload when base ends and exits with base's exit code.            *)
(*                                                                         *)
(* The three platform variants (linux.rs, macos.rs, windows.rs) are the    *)
(* three values of os.  The main thread's position is pc, the supervisor   *)
(* thread's position is sup_pc.  The children and the clock are the        *)
(* environment.  The model stops when the launcher process exits.          *)
(***************************************************************************)
EXTENDS Integers, Sequences, FiniteSets, TLC

\* ---------------------------------------------------------------- bounds
MaxGrace == 1    \* footer.grace_period ranges over 0..MaxGrace
MaxKillCount == 1 \* footer.network_failure_kill_count ranges over 0..MaxKillCount

\* ------------------------------------------------------ program constants
STILL_ACTIVE == 259
TerminateExitCode == 1
OverloadTerminateCode == 0
ErrExitCode == 1
BaseStartFailedCode == 1
SignalStatusCode == -1

OSes == {"linux", "macos", "windows"}
Posix == {"linux", "macos"}

BaseCodes == {0, 3}
OverloadCodes == {0, 2}

VARIABLES
    image,                       \* the launcher's own file: its length and footer
    os,                          \* target_os of the stub
    sync_mode,                   \* footer.sync_mode != 0
    grace_period,                \* footer.grace_period
    network_failure_kill_count,  \* footer.network_failure_kill_count
    pc,                          \* main thread position in run()
    exit_code,                   \* the launcher's exit status once pc = "done"
    health_ptr,                  \* "null" or "mapped"
    shm,                         \* the named shared-memory object and its view
    env_writes,                  \* writes of KILLCODE_HEALTH_SHM so far
    env,                         \* KILLCODE_HEALTH_SHM in the launcher's environment
    health,                      \* the HealthStatus record in the region
    files,                       \* temporary payload files (macOS, Windows)
    overload,                    \* the overload child process
    base,                        \* the base child process
    overload_pid,                \* Option<Pid> / overload_handle: "None" or "Some"
    base_exit_code,              \* status_code of the base wait
    monitor_handle,              \* "None", or "Some" once the thread is spawned
    sup_pc,                      \* supervisor thread position
    base_pid_cell,               \* AtomicI32: 0, or 1 for base's pid
    monitor_running,             \* AtomicBool (Windows)
    check_result,                \* the HealthCheckResult the supervisor acts on
    pid_reused,                  \* base's pid denotes another process
    sent,                        \* termination requests the launcher has sent
    last_out,                    \* the child that wrote the latest output line
    request,                     \* the assembly request: payloads, infos, policy
    catalog,                     \* the stubs embedded in the assembler's build
    host,                        \* the target the assembler itself is built for
    calls,                       \* results of the assembler's calls on the request
    loaded,                      \* what the stub's self-loading yields
    procs,                       \* launcher processes side by side: os and position
    file_ops                     \* payload files the running launchers have used

vars == <<image, os, sync_mode, grace_period, network_failure_kill_count, pc,
          exit_code, health_ptr, shm, env_writes, env, health, files,
          overload, base, overload_pid, base_exit_code, monitor_handle, sup_pc,
          base_pid_cell, monitor_running, check_result, pid_reused,
          sent, last_out, request, catalog, host, calls, loaded,
          procs, file_ops>>

asmVars == <<request, catalog, host, calls, loaded>>
peerVars == <<procs, file_ops>>
cfgVars == <<image, os, sync_mode, grace_period, network_failure_kill_count,
             asmVars, peerVars>>
shmVars == <<health_ptr, shm, env_writes, env>>
supVars == <<monitor_handle, sup_pc, base_pid_cell, monitor_running, check_result>>

\* ----------------------------------------------------------- wait status
NoStatus == [kind |-> "None", code |-> 0]
Exited(c) == [kind |-> "Exited", code |-> c]
Signaled == [kind |-> "Signaled", code |-> 0]

\* A child: st is "none" (not spawned), "running", "zombie" (ended, not yet
\* reaped / handle still open) or "reaped" (waited for / handle closed).
\* status is how the child ended; it stays on record after the child is reaped.
NoChild == [st |-> "none", status |-> NoStatus]
Running == [st |-> "running", status |-> NoStatus]
Ended(status) == [st |-> "zombie", status |-> status]
Reap(child) == [child EXCEPT !.st = "reaped"]

\* ------------------------------------------------------------ arithmetic
\* TLC's integers are 32 bits wide, so a u32 is held as the i32 that has
\* the same 32 bits: 0 .. 2^31 - 1 stand for themselves and 2^31 .. 2^32 - 1
\* appear as -2^31 .. -1.  `x > 0` on a u32 is then "some bit is set", and
\* `x as i32` reads the same bits back as a signed number.
U32Positive(bits) == bits # 0
AsI32(bits) == bits

\* ------------------------------------------------------- common.rs
\* Timestamps are held relative to the present: current_time() is always 0
\* and a tick of the clock ages every stored timestamp by one second.
current_time == 0

ZeroHealth ==
    [last_success |-> 0, consecutive_failures |-> 0, is_alive |-> 0,
     should_kill_base |-> 0, parent_requests_kill |-> 0]

init_health_status_not_alive(t) ==
    [last_success |-> t, consecutive_failures |-> 0, is_alive |-> 0,
     should_kill_base |-> 0, parent_requests_kill |-> 0]

init_health_status(t) ==
    [last_success |-> t, consecutive_failures |-> 0, is_alive |-> 1,
     should_kill_base |-> 0, parent_requests_kill |-> 0]

should_enable_health_monitoring_any_mode(sm, gp, nfkc) ==
    gp > 0 \/ U32Positive(nfkc)

should_enable_health_monitoring_any_policy(sm, gp, nfkc) ==
    ~sm

should_enable_health_monitoring(sm, gp, nfkc) ==
    ~sm /\ (gp > 0 \/ U32Positive(nfkc))

evaluate_health_status_no_grace(status, t, gp, nfkc) ==
    IF U32Positive(nfkc) /\ status.consecutive_failures >= AsI32(nfkc)
    THEN "NetworkFailureThreshold"
    ELSE IF status.should_kill_base # 0
    THEN "OverloadRequestedKill"
    ELSE IF status.is_alive = 0
    THEN "HeartbeatLost"
    ELSE "Ok"

evaluate_health_status_swapped(status, t, gp, nfkc) ==
    LET time_since_success == t - status.last_success IN
    IF U32Positive(nfkc) /\ status.consecutive_failures >= AsI32(nfkc)
    THEN "NetworkFailureThreshold"
    ELSE IF gp > 0 /\ time_since_success > gp
    THEN "GracePeriodExceeded"
    ELSE IF status.is_alive = 0
    THEN "HeartbeatLost"
    ELSE IF status.should_kill_base # 0
    THEN "OverloadRequestedKill"
    ELSE "Ok"

evaluate_health_status_ge(status, t, gp, nfkc) ==
    LET time_since_success == t - status.last_success IN
    IF time_since_success >= gp
    THEN "GracePeriodExceeded"
    ELSE IF U32Positive(nfkc) /\ status.consecutive_failures >= AsI32(nfkc)
    THEN "NetworkFailureThreshold"
    ELSE IF status.should_kill_base # 0
    THEN "OverloadRequestedKill"
    ELSE IF status.is_alive = 0
    THEN "HeartbeatLost"
    ELSE "Ok"

evaluate_health_status(status, t, gp, nfkc) ==
    LET time_since_success == t - status.last_success IN
    IF gp > 0 /\ time_since_success > gp
    THEN "GracePeriodExceeded"
    ELSE IF U32Positive(nfkc) /\ status.consecutive_failures >= AsI32(nfkc)
    THEN "NetworkFailureThreshold"
    ELSE IF status.should_kill_base # 0
    THEN "OverloadRequestedKill"
    ELSE IF status.is_alive = 0
    THEN "HeartbeatLost"
    ELSE "Ok"

signal_overload_to_kill_wrong_field(status) ==
    [status EXCEPT !.should_kill_base = 1]

signal_overload_to_kill_forgotten(status) ==
    status

signal_overload_to_kill(status) ==
    [status EXCEPT !.parent_requests_kill = 1]

\* ------------------------------------------------------- process helpers
\* status_code of the base wait: the exit code, or -1 for a signal death.
StatusCode_signal_one(st) ==
    IF st.kind = "Exited" THEN st.code ELSE 1

StatusCode(st) ==
    IF st.kind = "Exited" THEN st.code ELSE SignalStatusCode

\* A termination request recorded with the sender and whether the target
\* had already been reaped when it was sent.
Request(to, sig, by, child) ==
    [to |-> to, sig |-> sig, by |-> by, reaped |-> child.st = "reaped"]

\* SIGTERM to a running child either ends it by the signal or is left to it
\* (ignored, or handled: the child may still exit by itself later).
AfterSigterm(child) ==
    IF child.st = "running"
    THEN {child, Ended(Signaled)}
    ELSE {child}

AfterSigkill_ignored(child) ==
    child

AfterSigkill(child) ==
    IF child.st = "running"
    THEN Ended(Signaled)
    ELSE child

\* TerminateProcess(handle, code) on Windows.
AfterTerminate(child, code) ==
    IF child.st = "running"
    THEN Ended(Exited(code))
    ELSE child

MonitorCondition_unmapped ==
    /\ ~sync_mode
    /\ health_ptr = "null"
    /\ (grace_period > 0 \/ U32Positive(network_failure_kill_count))

MonitorCondition_no_ptr ==
    ~sync_mode /\ (grace_period > 0 \/ U32Positive(network_failure_kill_count))

MonitorCondition ==
    /\ ~sync_mode
    /\ health_ptr # "null"
    /\ (grace_period > 0 \/ U32Positive(network_failure_kill_count))

\* ------------------------------------------------------- the launcher image
\* size_of::<ConfigFooter>() under repr(C) on the 64-bit targets.
FooterSize == 56
MAGIC_BYTES == "KILLCODE"

\* An image as the merger writes it: stub, base, overload, footer.
IntactImage ==
    [file_len |-> FooterSize + 5, magic |-> MAGIC_BYTES,
     base_offset |-> 1, base_size |-> 2,
     overload_offset |-> 3, overload_size |-> 2]

\* read_exact of size bytes at offset: the seek may go past the end of the
\* file, the read then finds no byte there.
Available(offset) ==
    IF offset >= image.file_len THEN 0 ELSE image.file_len - offset

read_exact(offset, size) == size <= Available(offset)

\* ------------------------------------------------------------ the assembler
\* BinaryInfo: what the detector reads from a payload's header.
OperatingSystems == {"Linux", "Windows", "MacOS", "FreeBSD"}
Architectures == {"X86", "X86_64", "AArch64", "ARM"}
BinaryInfos == [os : OperatingSystems, arch : Architectures]

is_compatible_with_arch_only(self, other) ==
    self.arch = other.arch

is_compatible_with_os_only(self, other) ==
    self.os = other.os

is_compatible_with(self, other) ==
    self.arch = other.arch /\ self.os = other.os

is_supported(self) ==
    /\ self.arch \in {"X86", "X86_64", "ARM", "AArch64"}
    /\ self.os \in {"Linux", "Windows", "MacOS"}

\* The arms of the stub selection that name an embedded stub.
HasStub_macos_x86(info) ==
    \/ info.os = "Linux" /\ info.arch \in {"X86_64", "X86", "AArch64"}
    \/ info.os = "Windows" /\ info.arch \in {"X86_64", "X86", "AArch64"}
    \/ info.os = "MacOS" /\ info.arch \in {"X86_64", "X86", "AArch64"}

HasStub(info) ==
    \/ info.os = "Linux" /\ info.arch \in {"X86_64", "X86", "AArch64"}
    \/ info.os = "Windows" /\ info.arch \in {"X86_64", "X86", "AArch64"}
    \/ info.os = "MacOS" /\ info.arch \in {"X86_64", "AArch64"}

StubKeys == {info \in BinaryInfos : HasStub(info)}

\* The embedded stubs are files of the build.  A production build embeds a
\* stub for every key; a dev build embeds empty files for the targets it
\* cannot build.
ProductionStubs == [key \in StubKeys |-> <<127, 69>>]
DevStubs ==
    [key \in StubKeys |-> IF key.os = "Linux" THEN <<127, 69>> ELSE <<>>]

\* b"KILLCODE"
KILLCODE == <<75, 73, 76, 76, 67, 79, 68, 69>>

\* Little-endian bytes of an unsigned integer of the given width, and back.
RECURSIVE to_le_bytes(_, _)
to_le_bytes(value, width) ==
    IF width = 0 THEN <<>>
    ELSE <<value % 256>> \o to_le_bytes(value \div 256, width - 1)

RECURSIVE from_le_bytes(_)
from_le_bytes(bytes) ==
    IF bytes = <<>> THEN 0
    ELSE Head(bytes) + 256 * from_le_bytes(Tail(bytes))

\* repr(C) layout of ConfigFooter for a target.  The fields in declaration
\* order: magic, base_offset, base_size, overload_offset, overload_size,
\* grace_period, sync_mode, network_failure_kill_count.  A u64 is aligned to 4
\* bytes on 32-bit x86 Linux and to 8 bytes on every other target.
U64Align(target) ==
    IF target.os = "Linux" /\ target.arch = "X86" THEN 4 ELSE 8

FieldCount == 8
FieldSizes == <<8, 8, 8, 8, 8, 4, 1, 4>>
FieldAligns(target) ==
    <<1, U64Align(target), U64Align(target), U64Align(target),
      U64Align(target), 4, 1, 4>>

RoundUp(n, align) == ((n + align - 1) \div align) * align

RECURSIVE OffsetOf(_, _)
OffsetOf(target, i) ==
    IF i = 1 THEN 0
    ELSE RoundUp(OffsetOf(target, i - 1) + FieldSizes[i - 1],
                 FieldAligns(target)[i])

size_of_ConfigFooter(target) ==
    RoundUp(OffsetOf(target, FieldCount) + FieldSizes[FieldCount],
            U64Align(target))

\* Padding follows field 7 (sync_mode) and, where a u64 is aligned to 8
\* bytes, field 8.
PaddingRegions == {7, 8}
PadBytes == {0, 170}

\* The footer merge_v2 constructs.
ConfigFooter_overlapping(stub_len, base_len, overload_len, gp, sm, nfkc) ==
    [magic |-> KILLCODE,
     base_offset |-> stub_len, base_size |-> base_len,
     overload_offset |-> stub_len, overload_size |-> overload_len,
     grace_period |-> gp, sync_mode |-> IF sm THEN 1 ELSE 0,
     network_failure_kill_count |-> nfkc]

ConfigFooter(stub_len, base_len, overload_len, gp, sm, nfkc) ==
    [magic |-> KILLCODE,
     base_offset |-> stub_len, base_size |-> base_len,
     overload_offset |-> stub_len + base_len, overload_size |-> overload_len,
     grace_period |-> gp, sync_mode |-> IF sm THEN 1 ELSE 0,
     network_failure_kill_count |-> nfkc]

FieldBytes(footer) ==
    <<footer.magic,
      to_le_bytes(footer.base_offset, 8), to_le_bytes(footer.base_size, 8),
      to_le_bytes(footer.overload_offset, 8), to_le_bytes(footer.overload_size, 8),
      to_le_bytes(footer.grace_period, 4), to_le_bytes(footer.sync_mode, 1),
      to_le_bytes(footer.network_failure_kill_count, 4)>>

\* slice::from_raw_parts over the struct: the bytes of the fields at their
\* offsets and, in between and at the end, padding bytes.  Padding is never
\* written by the construction of the struct: its bytes are whatever the
\* memory held, pads[r] for the padding after field r.
Padding(n, byte) == [k \in 1..n |-> byte]

RECURSIVE StructBytes(_, _, _, _, _)
StructBytes(fields, target, pads, i, at) ==
    IF i > FieldCount
    THEN Padding(RoundUp(at, U64Align(target)) - at, pads[FieldCount])
    ELSE LET offset == RoundUp(at, FieldAligns(target)[i]) IN
         (IF offset > at THEN Padding(offset - at, pads[i - 1]) ELSE <<>>)
         \o fields[i]
         \o StructBytes(fields, target, pads, i + 1, offset + FieldSizes[i])

footer_bytes(footer, target, pads) ==
    StructBytes(FieldBytes(footer), target, pads, 1, 0)

\* mem::transmute of the footer bytes on a target: each field is read at
\* its offset.
FieldOf(bytes, target, i) ==
    SubSeq(bytes, OffsetOf(target, i) + 1, OffsetOf(target, i) + FieldSizes[i])

transmute(bytes, target) ==
    [magic |-> FieldOf(bytes, target, 1),
     base_offset |-> from_le_bytes(FieldOf(bytes, target, 2)),
     base_size |-> from_le_bytes(FieldOf(bytes, target, 3)),
     overload_offset |-> from_le_bytes(FieldOf(bytes, target, 4)),
     overload_size |-> from_le_bytes(FieldOf(bytes, target, 5)),
     grace_period |-> from_le_bytes(FieldOf(bytes, target, 6)),
     sync_mode |-> from_le_bytes(FieldOf(bytes, target, 7)),
     network_failure_kill_count |-> from_le_bytes(FieldOf(bytes, target, 8))]

\* The result of one call of the assembler: Ok or Err, whether the output
\* file was created, and the bytes it holds.
Rejected == [result |-> "Err", created |-> FALSE, file |-> <<>>]

\* merge_v2.  io is the outcome of the file operations: File::create may
\* fail, and a write may fail after the file was created.
merge_v2(base_data, overload_data, base_info, gp, sm, nfkc, io, pads) ==
    IF ~HasStub(base_info) THEN Rejected
    ELSE LET stub_bytes == catalog[base_info] IN
         IF stub_bytes = <<>> THEN Rejected
         ELSE IF io = "create_failed" THEN Rejected
         ELSE IF io = "write_failed"
         THEN [result |-> "Err", created |-> TRUE, file |-> stub_bytes]
         ELSE LET footer == ConfigFooter(Len(stub_bytes), Len(base_data),
                                         Len(overload_data), gp, sm, nfkc) IN
              [result |-> "Ok", created |-> TRUE,
               file |-> stub_bytes \o base_data \o overload_data \o
                        footer_bytes(footer, host, pads)]

\* The stub's self-loading, as the stub built for a target does it on a
\* file: the footer is the last size_of::<ConfigFooter>() bytes, the magic is
\* compared, and both payloads are read at their offsets.
NotLoaded == [status |-> "none"]
LoadFailed == [status |-> "Err"]

ReadAt(file, offset, size) ==
    IF size = 0 THEN [ok |-> TRUE, data |-> <<>>]
    ELSE IF offset + size > Len(file) THEN [ok |-> FALSE, data |-> <<>>]
    ELSE [ok |-> TRUE, data |-> SubSeq(file, offset + 1, offset + size)]

self_load(file, target) ==
    LET size == size_of_ConfigFooter(target) IN
    IF Len(file) < size THEN LoadFailed
    ELSE LET bytes == SubSeq(file, Len(file) - size + 1, Len(file))
             footer == transmute(bytes, target) IN
         IF FieldOf(bytes, target, 1) # KILLCODE THEN LoadFailed
         ELSE LET base_read == ReadAt(file, footer.base_offset, footer.base_size)
                  overload_read == ReadAt(file, footer.overload_offset,
                                          footer.overload_size) IN
              IF ~base_read.ok \/ ~overload_read.ok THEN LoadFailed
              ELSE [status |-> "Ok",
                    base_data |-> base_read.data,
                    overload_data |-> overload_read.data,
                    grace_period |-> footer.grace_period,
                    sync_mode |-> footer.sync_mode # 0,
                    network_failure_kill_count |->
                        footer.network_failure_kill_count]

\* No assembly is going on: the state of the assembler in a run of a launcher.
NoRequest == [entry |-> "none"]

\* Process ids of launchers that run at the same time on one machine.
Pids == {101, 102}

\* One launcher is looked at alone: no other launcher is followed.
NoPeers ==
    /\ procs = [p \in Pids |-> [os |-> "none", at |-> "none"]]
    /\ file_ops = {}

AssemblerIdle ==
    /\ NoPeers
    /\ request = NoRequest
    /\ catalog = ProductionStubs
    /\ host = [os |-> "Linux", arch |-> "X86_64"]
    /\ calls = <<>>
    /\ loaded = NotLoaded

\* ------------------------------------------------------------------ Init
\* The launcher at position first_pc of main, on one of the images, started
\* in one of the environments: KILLCODE_HEALTH_SHM is "unset" there or
\* "inherited" from the process that started the launcher.
Launched(first_pc, images, environments) ==
    /\ image \in images
    /\ os \in OSes
    /\ sync_mode \in BOOLEAN
    /\ grace_period \in 0..MaxGrace
    /\ network_failure_kill_count \in 0..MaxKillCount
    /\ pc = first_pc
    /\ exit_code = 0
    /\ health_ptr = "null"
    /\ shm = [obj |-> "none", view |-> FALSE, name |-> FALSE]
    /\ env_writes = 0
    /\ env \in environments
    /\ health = ZeroHealth
    /\ files = [base |-> "none", overload |-> "none"]
    /\ overload = NoChild
    /\ base = NoChild
    /\ overload_pid = "None"
    /\ base_exit_code = 0
    /\ monitor_handle = "None"
    /\ sup_pc = "none"
    /\ base_pid_cell = 0
    /\ monitor_running = TRUE
    /\ check_result = "None"
    /\ pid_reused = FALSE
    /\ sent = {}
    /\ last_out = "none"

\* run() is entered: main has read the footer and both payloads.
Init == Launched("setup_shm", {IntactImage}, {"unset"}) /\ AssemblerIdle


\* ------------------------------------------------------------ main thread
\* run() returns Err: main returns the error and the process ends with 1.
Abort ==
    /\ pc' = "done"
    /\ exit_code' = ErrExitCode

\* main, steps 1 and 2: the image is opened, its length is read, the footer
\* is read from its last size_of::<ConfigFooter>() bytes and the magic is
\* compared.  Every `?` on the way may leave main with an I/O error.
ReadFooter ==
    /\ pc = "read_footer"
    /\ \E io_ok \in BOOLEAN :
         IF io_ok /\ image.file_len >= FooterSize /\ image.magic = MAGIC_BYTES
         THEN pc' = "read_binaries" /\ UNCHANGED exit_code
         ELSE Abort
    /\ UNCHANGED <<cfgVars, shmVars, health, files, overload, base, overload_pid,
                   base_exit_code, supVars, pid_reused, sent, last_out>>

\* main, step 3: both payloads are read with seek and read_exact; then run().
ReadBinaries ==
    /\ pc = "read_binaries"
    /\ IF /\ read_exact(image.base_offset, image.base_size)
          /\ read_exact(image.overload_offset, image.overload_size)
       THEN pc' = "setup_shm" /\ UNCHANGED exit_code
       ELSE Abort
    /\ UNCHANGED <<cfgVars, shmVars, health, files, overload, base, overload_pid,
                   base_exit_code, supVars, pid_reused, sent, last_out>>

\* std::process::exit(base_exit_code).
Exit(code) ==
    /\ pc' = "done"
    /\ exit_code' = code

AfterShmPc_skip_overload == "start_base"

AfterShmPc == IF os = "linux" THEN "start_overload" ELSE "prepare_binaries"

\* Step 1: the shared health region, its initialisation and the environment
\* variable that names it.
SetupSharedMemory ==
    /\ pc = "setup_shm"
    /\ pc' = AfterShmPc
    /\ IF should_enable_health_monitoring(sync_mode, grace_period,
                                          network_failure_kill_count)
       THEN \E outcome \in {"mapped", "map_failed", "create_failed"} :
              /\ shm' = [obj |-> IF outcome = "create_failed" THEN "none" ELSE "exists",
                         view |-> outcome = "mapped",
                         name |-> TRUE]
              /\ health_ptr' = IF outcome = "mapped" THEN "mapped" ELSE "null"
              /\ health' = IF outcome = "mapped" THEN init_health_status(current_time) ELSE health
              /\ env_writes' = IF outcome = "mapped" THEN env_writes + 1 ELSE env_writes
              /\ env' = IF outcome = "mapped" THEN "own" ELSE env
       ELSE UNCHANGED <<shm, health_ptr, health, env_writes, env>>
    /\ UNCHANGED <<cfgVars, exit_code, files, overload, base, overload_pid,
                   base_exit_code, supVars, pid_reused, sent, last_out>>

\* Step 2 (macOS, Windows): both payloads are written to temporary files; a
\* write error leaves run() through `?`.
PrepareBinaries ==
    /\ pc = "prepare_binaries"
    /\ \E outcome \in {"ok", "base_failed", "overload_failed"} :
         /\ files' = [base |-> IF outcome = "base_failed" THEN "none" ELSE "written",
                      overload |-> IF outcome = "ok" THEN "written" ELSE "none"]
         /\ IF outcome = "ok"
            THEN /\ pc' = IF os = "macos" THEN "codesign" ELSE "start_overload"
                 /\ UNCHANGED exit_code
            ELSE Abort
    /\ UNCHANGED <<cfgVars, shmVars, health, overload, base, overload_pid,
                   base_exit_code, supVars, pid_reused, sent, last_out>>

\* macOS: ad-hoc code signing of both files; its result is ignored.
Codesign ==
    /\ pc = "codesign"
    /\ pc' = "start_overload"
    /\ \E signed \in BOOLEAN :
         files' = IF signed THEN [base |-> "signed", overload |-> "signed"] ELSE files
    /\ UNCHANGED <<cfgVars, exit_code, shmVars, health, overload, base, overload_pid,
                   base_exit_code, supVars, pid_reused, sent, last_out>>

RemovedFiles == [base |-> "removed", overload |-> "removed"]

AfterOverloadPc_base_first ==
    IF sync_mode THEN "wait_overload" ELSE "start_base"

AfterOverloadPc_nowait ==
    IF os = "windows" THEN "start_base" ELSE "start_monitor"

AfterOverloadPc ==
    IF sync_mode THEN "wait_overload"
    ELSE IF os = "windows" THEN "start_base" ELSE "start_monitor"

\* Step 3: the overload child is spawned.
StartOverload ==
    /\ pc = "start_overload"
    /\ \E spawned \in BOOLEAN :
         IF spawned
         THEN /\ overload' = Running
              /\ overload_pid' = IF os = "macos" /\ sync_mode THEN "None" ELSE "Some"
              /\ pc' = AfterOverloadPc
              /\ UNCHANGED <<exit_code, files>>
         ELSE /\ Abort
              /\ files' = IF os = "windows" THEN RemovedFiles ELSE files
              /\ UNCHANGED <<overload, overload_pid>>
    /\ UNCHANGED <<cfgVars, shmVars, health, base, base_exit_code, supVars, pid_reused, sent, last_out>>

\* Whether the sync-mode gate lets base start.
VerificationPassed_any(st) ==
    st.kind = "Exited"

VerificationPassed(st) ==
    st.kind = "Exited" /\ st.code = 0

\* Sync mode: the stub waits for the overload and requires exit code 0.
WaitOverload ==
    /\ pc = "wait_overload"
    /\ overload.st = "zombie"
    /\ IF VerificationPassed(overload.status)
       THEN /\ pc' = IF os = "windows" THEN "start_base" ELSE "start_monitor"
            /\ overload' = IF os = "windows" THEN overload
                           ELSE Reap(overload)
            /\ files' = IF os = "macos" THEN [files EXCEPT !.overload = "removed"]
                        ELSE files
            /\ UNCHANGED <<exit_code, shm>>
       ELSE /\ Abort
            /\ overload' = Reap(overload)
            /\ files' = IF os = "windows" \/ (os = "macos" /\ overload.status.kind = "Exited")
                        THEN RemovedFiles ELSE files
            /\ shm' = IF os = "macos" /\ overload.status.kind = "Exited" /\ shm.name
                      THEN [shm EXCEPT !.obj = "removed"] ELSE shm
    /\ UNCHANGED <<cfgVars, health_ptr, env_writes, env, health, base, overload_pid,
                   base_exit_code, supVars, pid_reused, sent, last_out>>

\* The health monitor thread is spawned when monitoring is in effect.
StartMonitor ==
    /\ pc = "start_monitor"
    /\ pc' = IF os = "windows" THEN "wait_base" ELSE "start_base"
    /\ IF MonitorCondition
       THEN /\ monitor_handle' = "Some"
            /\ sup_pc' = "sleep"
       ELSE UNCHANGED <<monitor_handle, sup_pc>>
    /\ UNCHANGED <<cfgVars, exit_code, shmVars, health, files, overload, base,
                   overload_pid, base_exit_code, base_pid_cell, monitor_running,
                   check_result, pid_reused, sent, last_out>>

\* The base child is spawned.  When the spawn fails, linux.rs returns the
\* error, macos.rs goes on with exit code 1 and windows.rs terminates the
\* overload and returns the error.
StartBase ==
    /\ pc = "start_base"
    /\ \E spawned \in BOOLEAN :
         IF spawned
         THEN /\ base' = Running
              /\ pc' = IF os = "windows" THEN "start_monitor"
                       ELSE IF monitor_handle = "Some" THEN "store_pid"
                       ELSE "wait_base"
              /\ UNCHANGED <<exit_code, files, overload, base_exit_code, sent>>
         ELSE /\ UNCHANGED base
              /\ CASE os = "linux" ->
                        /\ Abort
                        /\ UNCHANGED <<files, overload, base_exit_code, sent>>
                   [] os = "macos" ->
                        /\ base_exit_code' = BaseStartFailedCode
                        /\ pc' = "join"
                        /\ UNCHANGED <<exit_code, files, overload, sent>>
                   [] os = "windows" ->
                        /\ Abort
                        /\ overload' = Reap(AfterTerminate(overload, OverloadTerminateCode))
                        /\ sent' = sent \cup
                                   {Request("overload", "TERMINATE", "main", overload)}
                        /\ files' = RemovedFiles
                        /\ UNCHANGED base_exit_code
    /\ UNCHANGED <<cfgVars, shmVars, health, overload_pid, supVars, pid_reused, last_out>>

\* pid_cell.store(child): the supervisor learns base's pid (POSIX).
StoreBasePid ==
    /\ pc = "store_pid"
    /\ pc' = "wait_base"
    /\ base_pid_cell' = 1
    /\ UNCHANGED <<cfgVars, exit_code, shmVars, health, files, overload, base,
                   overload_pid, base_exit_code, monitor_handle, sup_pc,
                   monitor_running, check_result, pid_reused, sent, last_out>>

AfterBasePc_skip == "join"

\* After base's wait: the overload, when one is on record, is terminated.
AfterBasePc == IF overload_pid = "Some" THEN "term_overload" ELSE "join"

\* The blocking wait for base.  POSIX reaps the child; Windows reads the exit
\* code, keeps the handle and stops the monitor.
WaitBase ==
    /\ pc = "wait_base"
    /\ base.st = "zombie"
    /\ IF os = "windows"
       THEN /\ base_exit_code' = base.status.code
            /\ monitor_running' = FALSE
            /\ pc' = "join"
            /\ UNCHANGED base
       ELSE /\ base_exit_code' = StatusCode(base.status)
            /\ base' = Reap(base)
            /\ pc' = AfterBasePc
            /\ UNCHANGED monitor_running
    /\ UNCHANGED <<cfgVars, exit_code, shmVars, health, files, overload,
                   overload_pid, monitor_handle, sup_pc, base_pid_cell,
                   check_result, pid_reused, sent, last_out>>

\* POSIX: kill(ov_pid, SIGTERM), sleep(1), waitpid(ov_pid, WNOHANG); a child
\* that is still alive then is sent SIGKILL and waited for.  During the second
\* the overload may end by the signal, end by itself or stay alive.
TerminateOverload ==
    /\ pc = "term_overload"
    /\ pc' = "join"
    /\ \E after \in AfterSigterm(overload) \cup
                     (IF overload.st = "running"
                      THEN {Ended(Exited(c)) : c \in OverloadCodes} ELSE {}) :
         CASE after.st = "running" ->
                /\ sent' = sent \cup {Request("overload", "TERM", "main", overload),
                                      Request("overload", "KILL", "main", overload)}
                /\ overload' = Reap(AfterSigkill(after))
           [] after.st = "zombie" ->
                /\ sent' = sent \cup {Request("overload", "TERM", "main", overload)}
                /\ overload' = Reap(after)
           [] OTHER ->
                /\ sent' = sent \cup {Request("overload", "TERM", "main", overload)}
                /\ UNCHANGED overload
    /\ UNCHANGED <<cfgVars, exit_code, shmVars, health, files, base, overload_pid,
                   base_exit_code, supVars, pid_reused, last_out>>

JoinReturns_at_once == TRUE

\* handle.join() returns once the supervisor thread has ended.
JoinReturns == monitor_handle = "None" \/ sup_pc = "done"

\* The join of the supervisor, the cleanup after it and the exit.
JoinAndExit ==
    /\ pc = "join"
    /\ JoinReturns
    /\ Exit(base_exit_code)
    /\ CASE os = "linux" ->
              UNCHANGED <<files, shm, health_ptr, base, overload, sent>>
         [] os = "macos" ->
              /\ files' = [base |-> "removed",
                           overload |-> IF sync_mode THEN files.overload ELSE "removed"]
              /\ shm' = IF shm.name THEN [shm EXCEPT !.obj = "removed"] ELSE shm
              /\ UNCHANGED <<health_ptr, base, overload, sent>>
         [] os = "windows" ->
              /\ base' = Reap(base)
              /\ overload' = IF overload_pid = "Some"
                             THEN Reap(AfterTerminate(overload, OverloadTerminateCode))
                             ELSE overload
              /\ sent' = IF overload_pid = "Some"
                         THEN sent \cup {Request("overload", "TERMINATE", "main", overload)}
                         ELSE sent
              /\ files' = [base |-> "removed",
                           overload |-> IF overload_pid = "Some" THEN "removed"
                                        ELSE files.overload]
              /\ shm' = [shm EXCEPT !.view = FALSE,
                                    !.obj = IF shm.obj = "exists" THEN "removed" ELSE @]
              /\ UNCHANGED health_ptr
    /\ UNCHANGED <<cfgVars, env_writes, env, health, overload_pid, base_exit_code,
                   supVars, pid_reused, last_out>>


\* -------------------------------------------------------- supervisor thread
\* The thread lives inside the launcher process: it runs only until exit.
SupAlive == pc # "done" /\ monitor_handle = "Some"

\* kill(pid, None) on POSIX, GetExitCodeProcess on Windows: is base gone?
BaseProbeDead ==
    IF os = "windows"
    THEN base.st # "running" /\ base.status.code # STILL_ACTIVE
    ELSE base.st = "reaped" /\ ~pid_reused

NoBaseId_never == FALSE

\* base_pid_clone.load(Relaxed) <= 0: base's pid is not stored yet.
NoBaseId == base_pid_cell <= 0

\* One wake-up of the loop: the sleep ends, the base child id is read and base
\* is probed.
SupWake ==
    /\ SupAlive
    /\ sup_pc = "sleep"
    /\ sup_pc' = IF os = "windows"
                 THEN IF ~monitor_running \/ BaseProbeDead THEN "done" ELSE "eval"
                 ELSE IF NoBaseId THEN "sleep"
                 ELSE IF BaseProbeDead THEN "done" ELSE "eval"
    /\ UNCHANGED <<cfgVars, pc, exit_code, shmVars, health, files, overload, base,
                   overload_pid, base_exit_code, monitor_handle, base_pid_cell,
                   monitor_running, check_result, pid_reused, sent, last_out>>

AfterCheckPc(r) ==
    CASE r = "Ok" -> "sleep"
      [] r = "NetworkFailureThreshold" -> "net_wait"
      [] OTHER -> "kill_term"

\* The arm of the match that calls signal_overload_to_kill.
SignalsOverload_every_arm(r) == r # "Ok"

SignalsOverload(r) == r = "NetworkFailureThreshold"

\* evaluate_health_status and the branch taken on its result: Ok goes back to
\* sleep, every other result is logged and acted on.
SupEvaluate ==
    /\ SupAlive
    /\ sup_pc = "eval"
    /\ LET r == evaluate_health_status(health, current_time, grace_period,
                                       network_failure_kill_count) IN
         /\ check_result' = IF r = "Ok" THEN check_result ELSE r
         /\ sup_pc' = AfterCheckPc(r)
         /\ health' = IF SignalsOverload(r)
                      THEN signal_overload_to_kill(health) ELSE health
    /\ UNCHANGED <<cfgVars, pc, exit_code, shmVars, files, overload, base,
                   overload_pid, base_exit_code, monitor_handle, base_pid_cell,
                   monitor_running, pid_reused, sent, last_out>>

\* The wait of overload_kill_wait_duration() before the fallback kill.
SupNetWait ==
    /\ SupAlive
    /\ sup_pc = "net_wait"
    /\ sup_pc' = "kill_term"
    /\ UNCHANGED <<cfgVars, pc, exit_code, shmVars, health, files, overload, base,
                   overload_pid, base_exit_code, monitor_handle, base_pid_cell,
                   monitor_running, check_result, pid_reused, sent, last_out>>

\* kill_base: SIGTERM (POSIX), or TerminateProcess(base_handle, 1) (Windows).
SupKillTerm ==
    /\ SupAlive
    /\ sup_pc = "kill_term"
    /\ IF os = "windows"
       THEN /\ sup_pc' = "done"
            /\ base' = AfterTerminate(base, TerminateExitCode)
            /\ sent' = sent \cup {Request("base", "TERMINATE", "sup", base)}
       ELSE /\ sup_pc' = "kill_kill"
            /\ base' \in AfterSigterm(base)
            /\ sent' = sent \cup {Request("base", "TERM", "sup", base)}
    /\ UNCHANGED <<cfgVars, pc, exit_code, shmVars, health, files, overload,
                   overload_pid, base_exit_code, monitor_handle, base_pid_cell,
                   monitor_running, check_result, pid_reused, last_out>>

\* kill_base: SIGKILL after force_kill_delay().
SupKillKill ==
    /\ SupAlive
    /\ sup_pc = "kill_kill"
    /\ sup_pc' = "done"
    /\ base' = AfterSigkill(base)
    /\ sent' = sent \cup {Request("base", "KILL", "sup", base)}
    /\ UNCHANGED <<cfgVars, pc, exit_code, shmVars, health, files, overload,
                   overload_pid, base_exit_code, monitor_handle, base_pid_cell,
                   monitor_running, check_result, pid_reused, last_out>>

\* ------------------------------------------------------------- environment
LauncherRuns == pc # "done"

BaseExits ==
    /\ LauncherRuns
    /\ base.st = "running"
    /\ \E c \in BaseCodes : base' = Ended(Exited(c))
    /\ UNCHANGED <<cfgVars, pc, exit_code, shmVars, health, files, overload,
                   overload_pid, base_exit_code, supVars, pid_reused, sent, last_out>>

\* POSIX: base dies by a signal nobody in the launcher sent.
BaseKilled ==
    /\ LauncherRuns
    /\ os \in Posix
    /\ base.st = "running"
    /\ base' = Ended(Signaled)
    /\ UNCHANGED <<cfgVars, pc, exit_code, shmVars, health, files, overload,
                   overload_pid, base_exit_code, supVars, pid_reused, sent, last_out>>

\* A line of output of a child.  The order of the children's output is
\* followed in sync mode; async children run side by side.
BaseWrites ==
    /\ LauncherRuns
    /\ sync_mode
    /\ base.st = "running"
    /\ last_out' = "base"
    /\ UNCHANGED <<cfgVars, pc, exit_code, shmVars, health, files, overload, base,
                   overload_pid, base_exit_code, supVars, pid_reused, sent>>

OverloadExits ==
    /\ LauncherRuns
    /\ overload.st = "running"
    /\ \E c \in OverloadCodes : overload' = Ended(Exited(c))
    /\ UNCHANGED <<cfgVars, pc, exit_code, shmVars, health, files, base,
                   overload_pid, base_exit_code, supVars, pid_reused, sent, last_out>>

OverloadKilled ==
    /\ LauncherRuns
    /\ os \in Posix
    /\ overload.st = "running"
    /\ overload' = Ended(Signaled)
    /\ UNCHANGED <<cfgVars, pc, exit_code, shmVars, health, files, base,
                   overload_pid, base_exit_code, supVars, pid_reused, sent, last_out>>

OverloadWrites ==
    /\ LauncherRuns
    /\ sync_mode
    /\ overload.st = "running"
    /\ last_out' = "overload"
    /\ UNCHANGED <<cfgVars, pc, exit_code, shmVars, health, files, overload, base,
                   overload_pid, base_exit_code, supVars, pid_reused, sent>>

\* The supervisor reads the region and the clock in evaluate_health_status
\* only; once it has left the loop nothing in the launcher reads them.
SupervisorReads == sup_pc \in {"none", "sleep", "eval"}

\* The overload opens the region named by KILLCODE_HEALTH_SHM and reports.
OverloadSeesRegion ==
    /\ LauncherRuns
    /\ overload.st = "running"
    /\ env = "own"
    /\ shm.view
    /\ SupervisorReads

\* A successful check: last_success is the current time, the failure count
\* starts again.
OverloadHeartbeat ==
    /\ OverloadSeesRegion
    /\ health' = [health EXCEPT !.last_success = current_time,
                                !.consecutive_failures = 0]
    /\ UNCHANGED <<cfgVars, pc, exit_code, shmVars, files, overload, base,
                   overload_pid, base_exit_code, supVars, pid_reused, sent, last_out>>

\* A failed check is counted.  The count is read in one comparison only, with
\* the threshold: counts beyond the threshold are not told apart.
OverloadFailure ==
    /\ OverloadSeesRegion
    /\ health.consecutive_failures < network_failure_kill_count
    /\ health' = [health EXCEPT !.consecutive_failures = @ + 1]
    /\ UNCHANGED <<cfgVars, pc, exit_code, shmVars, files, overload, base,
                   overload_pid, base_exit_code, supVars, pid_reused, sent, last_out>>

OverloadRequestsKill ==
    /\ OverloadSeesRegion
    /\ health.should_kill_base = 0
    /\ health' = [health EXCEPT !.should_kill_base = 1]
    /\ UNCHANGED <<cfgVars, pc, exit_code, shmVars, files, overload, base,
                   overload_pid, base_exit_code, supVars, pid_reused, sent, last_out>>

OverloadClearsAlive ==
    /\ OverloadSeesRegion
    /\ health.is_alive = 1
    /\ health' = [health EXCEPT !.is_alive = 0]
    /\ UNCHANGED <<cfgVars, pc, exit_code, shmVars, files, overload, base,
                   overload_pid, base_exit_code, supVars, pid_reused, sent, last_out>>

\* One second passes: last_success lies one second further back.  Its age is
\* read in one comparison only, with grace_period: ages beyond grace_period + 1
\* are not told apart, and no age is read when grace_period is 0.
Tick ==
    /\ LauncherRuns
    /\ health_ptr = "mapped"
    /\ SupervisorReads
    /\ grace_period > 0
    /\ current_time - health.last_success <= grace_period
    /\ health' = [health EXCEPT !.last_success = @ - 1]
    /\ UNCHANGED <<cfgVars, pc, exit_code, shmVars, files, overload, base,
                   overload_pid, base_exit_code, supVars, pid_reused, sent, last_out>>

\* POSIX: once base is reaped the kernel may give its pid to another process.
\* Only the supervisor's probe, made from its sleep, can tell.
PidReuse ==
    /\ LauncherRuns
    /\ os \in Posix
    /\ base.st = "reaped"
    /\ monitor_handle = "Some" /\ sup_pc = "sleep"
    /\ ~pid_reused
    /\ pid_reused' = TRUE
    /\ UNCHANGED <<cfgVars, pc, exit_code, shmVars, health, files, overload, base,
                   overload_pid, base_exit_code, supVars, sent, last_out>>

\* ------------------------------------------------------------------- Next
Next ==
    \/ SetupSharedMemory
    \/ PrepareBinaries
    \/ Codesign
    \/ StartOverload
    \/ WaitOverload
    \/ StartMonitor
    \/ StartBase
    \/ StoreBasePid
    \/ WaitBase
    \/ TerminateOverload
    \/ JoinAndExit
    \/ SupWake
    \/ SupEvaluate
    \/ SupNetWait
    \/ SupKillTerm
    \/ SupKillKill
    \/ BaseExits
    \/ BaseKilled
    \/ BaseWrites
    \/ OverloadExits
    \/ OverloadKilled
    \/ OverloadWrites
    \/ OverloadHeartbeat
    \/ OverloadFailure
    \/ OverloadRequestsKill
    \/ OverloadClearsAlive
    \/ Tick
    \/ PidReuse

Spec == Init /\ [][Next]_vars

\* The same launcher, started in any environment.
EnvInit == Launched("setup_shm", {IntactImage}, {"unset", "inherited"}) /\ AssemblerIdle

EnvSpec == EnvInit /\ [][Next]_vars

TypeOK ==
    /\ os \in OSes
    /\ pc \in {"read_footer", "read_binaries", "setup_shm", "prepare_binaries", "codesign", "start_overload",
               "wait_overload", "start_monitor", "start_base", "store_pid",
               "wait_base", "term_overload", "join", "done"}
    /\ sup_pc \in {"none", "sleep", "eval", "net_wait", "kill_term", "kill_kill", "done"}
    /\ health.last_success \in (current_time - grace_period - 1)..current_time
    /\ health.consecutive_failures \in 0..network_failure_kill_count


\* --------------------------------------------------------------- fairness
\* The main thread and the supervisor thread are scheduled by the kernel and
\* time passes; the children are free to run for ever.
MainStep ==
    \/ SetupSharedMemory \/ PrepareBinaries \/ Codesign \/ StartOverload
    \/ WaitOverload \/ StartMonitor \/ StartBase \/ StoreBasePid \/ WaitBase
    \/ TerminateOverload \/ JoinAndExit

SupStep ==
    SupWake \/ SupEvaluate \/ SupNetWait \/ SupKillTerm \/ SupKillKill

FairSpec ==
    Spec /\ WF_vars(MainStep) /\ WF_vars(SupStep) /\ WF_vars(Tick)

\* ------------------------------------------- the assembler's entry points
MaxCalls == 2    \* calls of the entry point on one request

max_file_size == 2

Entries == {"merge_binaries", "merge_v2_stop_on_exit", "handler_merge_v2"}
\* The builds of the assembler: the target it is compiled for and the stubs
\* embedded in it.
Builds ==
    {[host |-> [os |-> "Linux", arch |-> "X86_64"], catalog |-> ProductionStubs],
     [host |-> [os |-> "Linux", arch |-> "X86"], catalog |-> ProductionStubs],
     [host |-> [os |-> "Linux", arch |-> "X86_64"], catalog |-> DevStubs]}

\* The overload of a request is detected as base is, or as one of these.
OtherInfos ==
    {[os |-> "Linux", arch |-> "X86_64"], [os |-> "Linux", arch |-> "AArch64"],
     [os |-> "Windows", arch |-> "X86_64"]}
\* Payloads with the policy asked for.  The second base payload is larger
\* than max_file_size.
Orders ==
    {[base_data |-> <<1>>, overload_data |-> <<>>,
      grace_period |-> 0, sync_mode |-> FALSE, network_failure_kill_count |-> 0],
     [base_data |-> <<1, 2, 3>>, overload_data |-> <<4>>,
      grace_period |-> 300, sync_mode |-> TRUE, network_failure_kill_count |-> 2],
     [base_data |-> <<1, 2>>, overload_data |-> <<4>>,
      grace_period |-> 300, sync_mode |-> FALSE, network_failure_kill_count |-> 2]}

\* MergeMode, an argument of merge_binaries alone: the other entry points
\* have no such argument and stand at the default.
MergeModes(entry) ==
    IF entry = "merge_binaries" THEN {"Before", "After"} ELSE {"Before"}

Requests ==
    {[entry |-> e, base_info |-> b, overload_info |-> o, mode |-> m,
      base_data |-> order.base_data, overload_data |-> order.overload_data,
      grace_period |-> order.grace_period, sync_mode |-> order.sync_mode,
      network_failure_kill_count |-> order.network_failure_kill_count] :
        e \in Entries, b \in BinaryInfos, o \in BinaryInfos, order \in Orders,
        m \in {"Before", "After"}}

\* No launcher is running while the assembler works.
NotLaunchedAlone ==
    /\ image = IntactImage
    /\ os = "linux"
    /\ sync_mode = FALSE
    /\ grace_period = 0
    /\ network_failure_kill_count = 0
    /\ pc = "read_footer"
    /\ exit_code = 0
    /\ health_ptr = "null"
    /\ shm = [obj |-> "none", view |-> FALSE, name |-> FALSE]
    /\ env_writes = 0
    /\ env = "unset"
    /\ health = ZeroHealth
    /\ files = [base |-> "none", overload |-> "none"]
    /\ overload = NoChild
    /\ base = NoChild
    /\ overload_pid = "None"
    /\ base_exit_code = 0
    /\ monitor_handle = "None"
    /\ sup_pc = "none"
    /\ base_pid_cell = 0
    /\ monitor_running = TRUE
    /\ check_result = "None"
    /\ pid_reused = FALSE
    /\ sent = {}
    /\ last_out = "none"

NotLaunched == NotLaunchedAlone /\ NoPeers

launcherVars ==
    <<image, os, sync_mode, grace_period, network_failure_kill_count, pc,
      exit_code, health_ptr, shm, env_writes, env, health, files, overload,
      base, overload_pid, base_exit_code, monitor_handle, sup_pc,
      base_pid_cell, monitor_running, check_result, pid_reused, sent, last_out>>

AsmInit ==
    /\ NotLaunched
    /\ request \in Requests
    /\ request.overload_info \in {request.base_info} \cup OtherInfos
    /\ request.mode \in MergeModes(request.entry)
    /\ \E build \in Builds : host = build.host /\ catalog = build.catalog
    /\ calls = <<>>
    /\ loaded = NotLoaded

IoOutcomes == {"ok", "create_failed", "write_failed", "copy_failed"}
PadChoices == [PaddingRegions -> PadBytes]

CanCall(entry) ==
    /\ request.entry = entry
    /\ Len(calls) < MaxCalls
    /\ loaded = NotLoaded

\* merge_v2 called from an entry point that copies the output afterwards.
MergeIo(io) == IF io = "copy_failed" THEN "ok" ELSE io

\* core::merger::merge_binaries: detection, the compatibility and support
\* checks, merge_v2 with the default policy, the copy to the final path.  The
\* work directory is a TempDir: it is gone when the function returns.
MergeBinaries ==
    /\ CanCall("merge_binaries")
    /\ \E io \in IoOutcomes, pads \in PadChoices :
         calls' = Append(calls,
            IF ~is_compatible_with(request.base_info, request.overload_info)
            THEN Rejected
            ELSE IF ~is_supported(request.base_info)
            THEN Rejected
            ELSE LET merged == merge_v2(request.base_data, request.overload_data,
                                        request.base_info, 0, request.sync_mode,
                                        0, MergeIo(io), pads) IN
                 IF merged.result = "Err" THEN Rejected
                 ELSE IF io = "copy_failed"
                 THEN [merged EXCEPT !.result = "Err"]
                 ELSE merged)
    /\ UNCHANGED <<launcherVars, peerVars, request, catalog, host, loaded>>

\* core::merger::merge_v2_stop_on_exit: merge_v2 with the caller's base_info
\* and policy; nothing is copied.
MergeV2StopOnExit ==
    /\ CanCall("merge_v2_stop_on_exit")
    /\ \E io \in IoOutcomes \ {"copy_failed"}, pads \in PadChoices :
         calls' = Append(calls,
            merge_v2(request.base_data, request.overload_data,
                     request.base_info, request.grace_period, request.sync_mode,
                     request.network_failure_kill_count, io, pads))
    /\ UNCHANGED <<launcherVars, peerVars, request, catalog, host, loaded>>

\* POST /merge/v2/stop-on-exit: the size limits, detection, the compatibility
\* check, merge_v2_stop_on_exit, the copy to the final path.  A failed merge
\* removes the work directory.
HandlerMergeV2 ==
    /\ CanCall("handler_merge_v2")
    /\ \E io \in IoOutcomes, pads \in PadChoices :
         calls' = Append(calls,
            IF \/ Len(request.base_data) > max_file_size
               \/ Len(request.overload_data) > max_file_size
            THEN Rejected
            ELSE IF ~is_compatible_with(request.base_info, request.overload_info)
            THEN Rejected
            ELSE LET merged == merge_v2(request.base_data, request.overload_data,
                                        request.base_info, request.grace_period,
                                        request.sync_mode,
                                        request.network_failure_kill_count,
                                        MergeIo(io), pads) IN
                 IF merged.result = "Err" THEN Rejected
                 ELSE IF io = "copy_failed"
                 THEN [merged EXCEPT !.result = "Err"]
                 ELSE merged)
    /\ UNCHANGED <<launcherVars, peerVars, request, catalog, host, loaded>>

LastCall == calls[Len(calls)]

\* The assembled launcher is started on its target: main reads itself.
SelfLoad ==
    /\ calls # <<>>
    /\ LastCall.result = "Ok"
    /\ loaded = NotLoaded
    /\ loaded' = self_load(LastCall.file, request.base_info)
    /\ UNCHANGED <<launcherVars, peerVars, request, catalog, host, calls>>

AsmNext ==
    \/ MergeBinaries
    \/ MergeV2StopOnExit
    \/ HandlerMergeV2
    \/ SelfLoad

AsmSpec == AsmInit /\ [][AsmNext]_vars

\* ------------------------------------- from merge_binaries to the running stub
\* target_os of the stub that was selected for the base's platform.
TargetOs(info) ==
    CASE info.os = "Linux" -> "linux"
      [] info.os = "Windows" -> "windows"
      [] info.os = "MacOS" -> "macos"

\* main hands the payloads and the footer it has read to run().
Launch ==
    /\ loaded.status = "Ok"
    /\ pc = "read_footer"
    /\ pc' = "setup_shm"
    /\ os' = TargetOs(request.base_info)
    /\ sync_mode' = loaded.sync_mode
    /\ grace_period' = loaded.grace_period
    /\ network_failure_kill_count' = loaded.network_failure_kill_count
    /\ UNCHANGED <<image, asmVars, peerVars, exit_code, shmVars, health, files, overload,
                   base, overload_pid, base_exit_code, supVars, pid_reused, sent,
                   last_out>>

\* A request of merge_binaries for a target the build has a stub for.
MergedInit ==
    /\ AsmInit
    /\ request.entry = "merge_binaries"
    /\ request.overload_info = request.base_info
    /\ HasStub(request.base_info)

\* merge_binaries, the start of the merged launcher and its run.  The policy
\* merge_binaries writes has no grace period and no failure threshold, so no
\* supervisor thread exists in these runs.
MergedNext ==
    \/ MergeBinaries
    \/ SelfLoad
    \/ Launch
    \/ SetupSharedMemory
    \/ PrepareBinaries
    \/ Codesign
    \/ StartOverload
    \/ WaitOverload
    \/ StartMonitor
    \/ StartBase
    \/ WaitBase
    \/ TerminateOverload
    \/ JoinAndExit
    \/ BaseExits
    \/ BaseKilled
    \/ BaseWrites
    \/ OverloadExits
    \/ OverloadKilled
    \/ OverloadWrites

MergedSpec == MergedInit /\ [][MergedNext]_vars

\* ------------------------------------------- launchers running side by side
\* The path of a payload file.  macos.rs joins "base_<pid>" or
\* "overload_<pid>" to the temporary directory, windows.rs joins "base.exe" or
\* "overload.exe".
TempPath(target_os, pid, which) ==
    IF target_os = "macos" THEN <<"temp_dir", which, pid>>
    ELSE <<"temp_dir", which, "exe">>

\* Launcher p uses one of its payload files.
Use(p, which, op) ==
    file_ops' = file_ops \cup
        {[path |-> TempPath(procs[p].os, p, which), pid |-> p, op |-> op]}

Step(p, from, to) ==
    /\ procs[p].at = from
    /\ procs' = [procs EXCEPT ![p].at = to]

\* Two launchers have been started on one machine, each with its own pid.
PeerInit ==
    /\ NotLaunchedAlone
    /\ \E o \in {"macos", "windows"} :
          procs = [p \in Pids |-> [os |-> o, at |-> "run"]]
    /\ file_ops = {}
    /\ request = NoRequest
    /\ catalog = ProductionStubs
    /\ host = [os |-> "Linux", arch |-> "X86_64"]
    /\ calls = <<>>
    /\ loaded = NotLoaded

WriteBase(p) ==
    /\ Step(p, "run", "base_written")
    /\ Use(p, "base", "write")
    /\ UNCHANGED <<launcherVars, asmVars>>

WriteOverload(p) ==
    /\ Step(p, "base_written", "written")
    /\ Use(p, "overload", "write")
    /\ UNCHANGED <<launcherVars, asmVars>>

ExecuteOverload(p) ==
    /\ Step(p, "written", "overload_started")
    /\ Use(p, "overload", "execute")
    /\ UNCHANGED <<launcherVars, asmVars>>

ExecuteBase(p) ==
    /\ Step(p, "overload_started", "base_started")
    /\ Use(p, "base", "execute")
    /\ UNCHANGED <<launcherVars, asmVars>>

RemoveBase(p) ==
    /\ Step(p, "base_started", "base_removed")
    /\ Use(p, "base", "delete")
    /\ UNCHANGED <<launcherVars, asmVars>>

RemoveOverload(p) ==
    /\ Step(p, "base_removed", "cleaned")
    /\ Use(p, "overload", "delete")
    /\ UNCHANGED <<launcherVars, asmVars>>

\* The launcher process ends: what it did is no longer the doing of a
\* running process.
PeerExit(p) ==
    /\ Step(p, "cleaned", "exited")
    /\ file_ops' = {u \in file_ops : u.pid # p}
    /\ UNCHANGED <<launcherVars, asmVars>>

PeerNext ==
    \E p \in Pids :
        \/ WriteBase(p)
        \/ WriteOverload(p)
        \/ ExecuteOverload(p)
        \/ ExecuteBase(p)
        \/ RemoveBase(p)
        \/ RemoveOverload(p)
        \/ PeerExit(p)

PeerSpec == PeerInit /\ [][PeerNext]_vars

\* ================================================================ claims
BaseSpawned == base.st # "none"
LauncherExited == pc = "done"
RequestsTo(child) == {r \in sent : r.to = child}

\* C1: whenever base was spawned and the launcher has exited, the launcher's
\* exit code is base's exit code when base exited normally and -1 when base
\* was killed by a signal, whatever the overload and the supervisor did.
C1_ExitCodeIsBaseExitCode ==
    (LauncherExited /\ BaseSpawned) =>
        /\ base.status.kind \in {"Exited", "Signaled"}
        /\ base.status.kind = "Exited" => exit_code = base.status.code
        /\ base.status.kind = "Signaled" => exit_code = -1

C1_Witness ==
    /\ LauncherExited
    /\ ~sync_mode
    /\ base.status = Signaled
    /\ \E r \in RequestsTo("base") : r.by = "sup"
    /\ exit_code = -1

\* C2: in async mode, when base has ended and the launcher has exited, the
\* main thread has asked the overload to terminate and the overload is reaped
\* (POSIX) or terminated with its handle closed (Windows).
C2_OverloadGoneAtExit ==
    (LauncherExited /\ ~sync_mode /\ BaseSpawned) =>
        /\ overload.st = "reaped"
        /\ \E r \in RequestsTo("overload") : r.by = "main" /\ ~r.reaped

C2_Witness ==
    /\ LauncherExited
    /\ ~sync_mode
    /\ base.st = "reaped"
    /\ overload.st = "reaped"
    /\ \E r \in RequestsTo("overload") : r.sig = "KILL"

OverloadDiedFirst == ~sync_mode /\ overload.st = "zombie" /\ base.st = "running"

\* C3 as stated: in async mode, for every grace_period and
\* network_failure_kill_count, once the overload has exited or crashed while
\* base is running, base does not go on running.
C3_Original ==
    OverloadDiedFirst ~> (base.st # "running")

\* C3 (amended): in async mode with grace_period > 0 and the health region
\* mapped, once the overload has exited or crashed while base is running
\* (with or without is_alive = 0 written), base does not go on running: the
\* supervisor terminates it, by GracePeriodExceeded at the latest.
C3_BaseTerminatedUnderGrace ==
    (OverloadDiedFirst /\ grace_period > 0 /\ health_ptr = "mapped")
        ~> (base.st # "running")

C3_Witness ==
    /\ ~sync_mode
    /\ grace_period > 0
    /\ overload.st = "zombie"
    /\ health.is_alive = 1
    /\ check_result = "GracePeriodExceeded"
    /\ base.status = Signaled
    /\ \E r \in RequestsTo("base") : r.by = "sup" /\ r.sig = "KILL" /\ ~r.reaped

VerificationFailed ==
    /\ overload.st \in {"zombie", "reaped"}
    /\ \/ overload.status.kind = "Signaled"
       \/ overload.status.kind = "Exited" /\ overload.status.code # 0

\* C4: in sync mode, when the overload ended with a non-zero code or
\* abnormally, base is never spawned, the launcher goes nowhere but to its
\* exit, and its exit status is not 0.
C4_FailedVerificationStopsLaunch ==
    (sync_mode /\ VerificationFailed) =>
        /\ base.st = "none"
        /\ pc \in {"wait_overload", "done"}
        /\ LauncherExited => exit_code # 0

C4_Witness ==
    /\ sync_mode
    /\ LauncherExited
    /\ overload.status = Exited(2)
    /\ base.st = "none"
    /\ exit_code = 1

\* C5: in sync mode base is spawned only after the overload has exited with
\* code 0, the two never run at the same time, and no output of the overload
\* follows an output of base.
C5_SyncRunsOverloadThenBase ==
    /\ [](sync_mode =>
            /\ BaseSpawned =>
                 (overload.st \in {"zombie", "reaped"} /\ overload.status = Exited(0))
            /\ ~(overload.st = "running" /\ base.st = "running"))
    /\ [][(sync_mode /\ last_out = "base") => last_out' # "overload"]_vars

C5_Witness ==
    /\ sync_mode
    /\ overload.status = Exited(0)
    /\ base.st = "running"
    /\ last_out = "base"

HealthPolicy == grace_period > 0 \/ network_failure_kill_count > 0

\* The main thread is past the place where the monitor thread is spawned.
MonitorDecided ==
    \/ pc \in {"store_pid", "wait_base", "term_overload", "join"}
    \/ pc = "start_base" /\ os # "windows"
    \/ LauncherExited /\ BaseSpawned

\* C6: a supervisor thread exists only if sync_mode = 0, a health policy is
\* set and the health region was created and mapped; and once the main thread
\* is past the place where it spawns the thread, it exists if that holds.
C6_SupervisorIffEnabledAndMapped ==
    /\ monitor_handle = "Some" =>
         (~sync_mode /\ HealthPolicy /\ health_ptr = "mapped")
    /\ MonitorDecided =>
         (monitor_handle = "Some" <=>
            (~sync_mode /\ HealthPolicy /\ health_ptr = "mapped"))

C6_Witness ==
    /\ MonitorDecided
    /\ ~sync_mode
    /\ HealthPolicy
    /\ health_ptr = "null"
    /\ monitor_handle = "None"
    /\ base.st = "running"

\* C7: in async mode with grace_period = 0 and network_failure_kill_count = 0
\* there is no supervisor thread and no health region, and the launcher sends
\* no termination request to base.
C7_NoPolicyNoSupervision ==
    (~sync_mode /\ grace_period = 0 /\ network_failure_kill_count = 0) =>
        /\ monitor_handle = "None"
        /\ sup_pc = "none"
        /\ shm.obj = "none" /\ ~shm.view
        /\ health_ptr = "null"
        /\ RequestsTo("base") = {}

C7_Witness ==
    /\ ~sync_mode /\ grace_period = 0 /\ network_failure_kill_count = 0
    /\ LauncherExited
    /\ base.status = Exited(3)
    /\ exit_code = 3

\* C8 as stated: in sync mode, whatever grace_period and
\* network_failure_kill_count are, there is no supervisor thread, no health
\* region, and KILLCODE_HEALTH_SHM is not set in the environment that the
\* children inherit.
C8_Original ==
    sync_mode =>
        /\ monitor_handle = "None"
        /\ sup_pc = "none"
        /\ shm.obj = "none" /\ ~shm.view
        /\ health_ptr = "null"
        /\ (overload.st # "none" \/ base.st # "none") => env = "unset"

\* C8, what holds: in sync mode, whatever grace_period and
\* network_failure_kill_count are, there is no supervisor thread, no health
\* region, and the launcher never writes KILLCODE_HEALTH_SHM.
C8_SyncHasNoHealthMonitoring ==
    sync_mode =>
        /\ monitor_handle = "None"
        /\ sup_pc = "none"
        /\ shm.obj = "none" /\ ~shm.view
        /\ health_ptr = "null"
        /\ env_writes = 0

C8_Witness ==
    /\ sync_mode /\ grace_period > 0 /\ network_failure_kill_count > 0
    /\ LauncherExited
    /\ base.st = "reaped"
    /\ overload.status = Exited(0)

\* The four rules on the region as the supervisor finds it.
GraceRule ==
    grace_period > 0 /\ current_time - health.last_success > grace_period
NetworkRule ==
    /\ network_failure_kill_count > 0
    /\ health.consecutive_failures >= network_failure_kill_count
KillRule == health.should_kill_base # 0
HeartbeatRule == health.is_alive = 0

EvaluateStep == sup_pc = "eval" /\ sup_pc' # "eval"

\* The result of the evaluation just made: Ok sends the supervisor back to
\* sleep, any other result is the one it goes on to act on.
Reported == IF sup_pc = "sleep" THEN "Ok" ELSE check_result

\* C9: every evaluation reports the first rule that matches in the order
\* GracePeriodExceeded, NetworkFailureThreshold, OverloadRequestedKill,
\* HeartbeatLost, and Ok only when none matches.
C9_FirstMatchingRuleReported ==
    [][EvaluateStep =>
         /\ Reported' = "GracePeriodExceeded" <=> GraceRule
         /\ Reported' = "NetworkFailureThreshold" <=> (~GraceRule /\ NetworkRule)
         /\ Reported' = "OverloadRequestedKill" <=>
              (~GraceRule /\ ~NetworkRule /\ KillRule)
         /\ Reported' = "HeartbeatLost" <=>
              (~GraceRule /\ ~NetworkRule /\ ~KillRule /\ HeartbeatRule)
         /\ Reported' = "Ok" <=>
              (~GraceRule /\ ~NetworkRule /\ ~KillRule /\ ~HeartbeatRule)]_vars

\* Once the supervisor has decided to kill, the region is as it found it.
C9_Witness ==
    /\ sup_pc = "kill_term"
    /\ check_result = "GracePeriodExceeded"
    /\ GraceRule /\ NetworkRule /\ KillRule /\ HeartbeatRule

I32Max == 2147483647
I32Min == -I32Max - 1

ThresholdBits == {0, 1, 2, I32Max, I32Min, I32Min + 1, -2, -1}
FailureCounts == {I32Min, -1, 0, 1, 2, I32Max}

EvalInit ==
    /\ image = IntactImage
    /\ os \in OSes
    /\ sync_mode = FALSE
    /\ grace_period \in 0..MaxGrace
    /\ network_failure_kill_count \in ThresholdBits
    /\ grace_period > 0 \/ U32Positive(network_failure_kill_count)
    /\ pc = "wait_base"
    /\ exit_code = 0
    /\ health_ptr = "mapped"
    /\ shm = [obj |-> "exists", view |-> TRUE, name |-> TRUE]
    /\ env_writes = 1
    /\ env = "own"
    /\ \E f \in FailureCounts, age \in 0..(grace_period + 1) :
         health = [init_health_status(current_time - age)
                     EXCEPT !.consecutive_failures = f]
    /\ files = IF os = "linux" THEN [base |-> "none", overload |-> "none"]
               ELSE [base |-> "written", overload |-> "written"]
    /\ overload = Running
    /\ base = Running
    /\ overload_pid = "Some"
    /\ base_exit_code = 0
    /\ monitor_handle = "Some"
    /\ sup_pc = "eval"
    /\ base_pid_cell = IF os = "windows" THEN 0 ELSE 1
    /\ monitor_running = TRUE
    /\ check_result = "None"
    /\ pid_reused = FALSE
    /\ sent = {}
    /\ last_out = "none"
    /\ AssemblerIdle

EvalNext == SupEvaluate

EvalSpec == EvalInit /\ [][EvalNext]_vars

\* The threshold as the number the footer holds: bit patterns below 0 stand
\* for 2^31 .. 2^32 - 1, which no i32 failure count reaches.
ThresholdReached ==
    /\ network_failure_kill_count > 0
    /\ health.consecutive_failures >= network_failure_kill_count

\* C11 as stated: for every u32 threshold and every i32 failure count, an
\* evaluation that gets past the grace rule reports NetworkFailureThreshold
\* exactly when the threshold is above 0 and the failure count has reached
\* it, the two compared as mathematical integers.
C11_Original ==
    [][(EvaluateStep /\ ~GraceRule) =>
         (Reported' = "NetworkFailureThreshold" <=> ThresholdReached)]_vars

\* ============================================ a silent overload, a lasting base
\* The runs in which the overload never reports a successful check and base
\* never ends on its own account: every step of the launcher, the clock and
\* the children but OverloadHeartbeat, BaseExits and BaseKilled.  (PidReuse
\* has no place here: base is reaped only once the supervisor has ended it,
\* and the supervisor probes no more after that.)
SilentNext ==
    \/ SetupSharedMemory
    \/ PrepareBinaries
    \/ Codesign
    \/ StartOverload
    \/ WaitOverload
    \/ StartMonitor
    \/ StartBase
    \/ StoreBasePid
    \/ WaitBase
    \/ TerminateOverload
    \/ JoinAndExit
    \/ SupWake
    \/ SupEvaluate
    \/ SupNetWait
    \/ SupKillTerm
    \/ SupKillKill
    \/ BaseWrites
    \/ OverloadExits
    \/ OverloadKilled
    \/ OverloadWrites
    \/ OverloadFailure
    \/ OverloadRequestsKill
    \/ OverloadClearsAlive
    \/ Tick

SilentSpec ==
    /\ Init /\ [][SilentNext]_vars
    /\ WF_vars(MainStep) /\ WF_vars(SupStep) /\ WF_vars(Tick)

BaseRunsUnderGrace == ~sync_mode /\ grace_period > 0 /\ base.st = "running"

BaseKilledBySupervisor ==
    /\ base.st # "running"
    /\ \E r \in RequestsTo("base") : r.by = "sup" /\ ~r.reaped

\* C12 as stated, read in its favour (a health region is mapped, and an
\* overload that raises another rule is no case of the scenario): in async
\* mode with grace_period > 0, when the overload never updates last_success
\* and base does not end by itself, eventually the supervisor has reported
\* GracePeriodExceeded, base is terminated and the launcher has exited with
\* code -1.
C12_Original ==
    (BaseRunsUnderGrace /\ health_ptr = "mapped") ~>
        \/ NetworkRule \/ KillRule \/ HeartbeatRule
        \/ /\ check_result = "GracePeriodExceeded"
           /\ BaseKilledBySupervisor
           /\ LauncherExited /\ exit_code = -1

\* C12 (amended): in async mode with grace_period > 0 and the health region
\* mapped, when the overload never updates last_success and base does not end
\* by itself, eventually the supervisor has reported a result other than Ok,
\* base is terminated by it and the launcher has exited, with code -1 on
\* Linux and macOS and with code 1 on Windows; and the result reported is
\* GracePeriodExceeded unless the region holds a reached failure threshold,
\* should_kill_base # 0 or is_alive = 0.
C12_GraceTripKillsBase ==
    /\ (BaseRunsUnderGrace /\ health_ptr = "mapped") ~>
          /\ check_result # "None"
          /\ BaseKilledBySupervisor
          /\ LauncherExited
          /\ exit_code = IF os = "windows" THEN TerminateExitCode ELSE -1
    /\ [](check_result \in {"None", "GracePeriodExceeded"}
            \/ NetworkRule \/ KillRule \/ HeartbeatRule)

\* The grace period has run out on a region nobody wrote after its
\* initialisation, and the launcher is gone with -1.
C12_Witness ==
    /\ ~sync_mode /\ grace_period > 0
    /\ LauncherExited /\ exit_code = -1
    /\ check_result = "GracePeriodExceeded"
    /\ health = init_health_status(current_time - grace_period - 1)
    /\ base.status = Signaled
    /\ \E r \in RequestsTo("base") : r.by = "sup" /\ r.sig = "TERM" /\ ~r.reaped

\* ------------------------------------------------- the network-failure branch
\* The supervisor is in the branch of NetworkFailureThreshold.
InNetworkBranch == check_result = "NetworkFailureThreshold"

SupRequests == {r \in RequestsTo("base") : r.by = "sup"}

\* log_network_failure_threshold is written by the step that enters the wait,
\* log_fallback_kill by the step that ends it.
ThresholdExceededEvent == sup_pc = "eval" /\ sup_pc' = "net_wait"
FallbackEvent == sup_pc = "net_wait" /\ sup_pc' # "net_wait"

\* C13: on NetworkFailureThreshold the supervisor sets parent_requests_kill
\* to 1 with no termination sent to base yet, then waits, then terminates
\* base and leaves its loop: in that branch every request it sends to base
\* finds parent_requests_kill = 1, and the wait that ends with the fallback
\* is entered only by the step that reports the threshold.
C13_NetworkBranchSignalsThenKills ==
    /\ [](InNetworkBranch =>
            /\ health.parent_requests_kill = 1
            /\ sup_pc \in {"net_wait", "kill_term", "kill_kill", "done"}
            /\ sup_pc = "net_wait" => SupRequests = {})
    /\ [][ThresholdExceededEvent <=>
            (InNetworkBranch' /\ ~InNetworkBranch)]_vars
    /\ [][ThresholdExceededEvent =>
            /\ health.parent_requests_kill = 0
            /\ health'.parent_requests_kill = 1
            /\ SupRequests' = {}]_vars
    /\ [][FallbackEvent =>
            (InNetworkBranch /\ sup_pc' = "kill_term" /\ SupRequests' = {})]_vars
    /\ [][(InNetworkBranch' /\ SupRequests' # SupRequests) =>
            /\ sup_pc \in {"kill_term", "kill_kill"}
            /\ sup_pc' \in {"kill_kill", "done"}
            /\ health.parent_requests_kill = 1]_vars
    /\ [][(InNetworkBranch /\ sup_pc = "kill_term") =>
            sup_pc' \in {"kill_term", "kill_kill", "done"}]_vars

\* The whole branch has run: flag set, wait over, base killed, loop left.
C13_Witness ==
    /\ InNetworkBranch
    /\ sup_pc = "done"
    /\ health.parent_requests_kill = 1
    /\ health.consecutive_failures >= network_failure_kill_count
    /\ base.status = Signaled
    /\ \E r \in SupRequests : r.sig = "KILL" /\ ~r.reaped

\* ====================================================== main from its start
\* main() from its first line, on images of every kind: too short for a
\* footer, with another magic, with payload slices inside the file, reaching
\* past its end, and empty ones placed past its end.
Images ==
    [file_len : {FooterSize - 1, IntactImage.file_len},
     magic : {MAGIC_BYTES, "KILLC0DE"},
     base_offset : {IntactImage.base_offset, IntactImage.file_len + 1},
     base_size : {0, IntactImage.base_size},
     overload_offset : {IntactImage.overload_offset},
     overload_size : {IntactImage.overload_size, IntactImage.file_len + 1}]

FooterInit == Launched("read_footer", Images, {"unset"}) /\ AssemblerIdle

FooterNext ==
    \/ ReadFooter
    \/ ReadBinaries
    \/ Next

FooterSpec == FooterInit /\ [][FooterNext]_vars

NoChildSpawned == overload.st = "none" /\ base.st = "none"

SliceInFile(offset, size) == offset + size <= image.file_len

FooterAccepted ==
    /\ image.file_len >= FooterSize
    /\ image.magic = MAGIC_BYTES

\* C14 as stated: a child is spawned only on an image that holds a footer
\* with the magic KILLCODE and both payload slices within the file; and on an
\* image shorter than the footer, with another magic, or with a slice whose
\* offset plus size exceeds the file length, nothing is ever spawned and the
\* launcher's exit is the error exit.
C14_Original ==
    LET Malformed ==
            \/ ~FooterAccepted
            \/ ~SliceInFile(image.base_offset, image.base_size)
            \/ ~SliceInFile(image.overload_offset, image.overload_size)
    IN  /\ ~NoChildSpawned => FooterAccepted
        /\ Malformed => NoChildSpawned
        /\ (Malformed /\ LauncherExited) => exit_code = ErrExitCode

\* ------------------------------------------------ the region before the spawn
RegionMappedStep == health_ptr = "null" /\ health_ptr' = "mapped"
RegionCreatedStep == shm.obj = "none" /\ shm'.obj = "exists"
OverloadSpawnStep == overload.st = "none" /\ overload'.st # "none"

\* The four fields that do not age, as init_health_status leaves them.
FlagsAsInitialised ==
    /\ health.consecutive_failures = 0
    /\ health.is_alive = 1
    /\ health.should_kill_base = 0
    /\ health.parent_requests_kill = 0

\* C15: the health region is created and mapped only while no overload
\* exists; the step that maps it leaves last_success = now, is_alive = 1 and
\* the three other fields 0; it is still so (last_success no later than now)
\* when the overload is spawned; and an overload that is told of a region
\* finds it mapped.
C15_RegionReadyBeforeOverload ==
    /\ [][(RegionMappedStep \/ RegionCreatedStep) =>
            (overload.st = "none" /\ overload'.st = "none")]_vars
    /\ [][RegionMappedStep =>
            /\ shm'.obj = "exists" /\ shm'.view
            /\ health'.last_success = current_time
            /\ FlagsAsInitialised']_vars
    /\ [][(OverloadSpawnStep /\ env_writes > 0) =>
            /\ health_ptr = "mapped" /\ shm.obj = "exists" /\ shm.view
            /\ health.last_success <= current_time
            /\ FlagsAsInitialised]_vars
    /\ []((overload.st # "none" /\ env_writes > 0) => health_ptr = "mapped")
    /\ []((overload.st = "none" /\ health_ptr = "mapped") => FlagsAsInitialised)

\* The overload has just been spawned next to a mapped region that had aged
\* by a second since its initialisation.
C15_Witness ==
    /\ overload.st = "running"
    /\ base.st = "none"
    /\ health_ptr = "mapped" /\ shm.view
    /\ env_writes = 1
    /\ FlagsAsInitialised
    /\ health.last_success = current_time - 1

\* ------------------------------------------------------ KILLCODE_HEALTH_SHM
EnvWriteStep == env_writes' # env_writes

\* The main thread is past step 1 of run().
PastSharedMemorySetup == pc \notin {"read_footer", "read_binaries", "setup_shm"}

\* C16 as stated: KILLCODE_HEALTH_SHM is written at most once, only while no
\* overload exists, and, once step 1 of run() is over, exactly when the
\* health region is mapped; and whenever health monitoring is disabled the
\* variable is absent from the environment a child is spawned in.
C16_Original ==
    /\ [](env_writes <= 1)
    /\ [][EnvWriteStep => (overload.st = "none" /\ overload'.st = "none")]_vars
    /\ [](PastSharedMemorySetup => (env_writes = 1 <=> health_ptr = "mapped"))
    /\ []((~NoChildSpawned /\ (sync_mode \/ ~HealthPolicy)) => env = "unset")

\* ------------------------------------------------- the supervisor and base's id
\* The supervisor holds what it addresses base by: the pid read from the cell
\* (Linux, macOS), or the handle of the spawned base it was started with
\* (Windows).
BaseIdKnown ==
    IF os = "windows" THEN base.st # "none" ELSE base_pid_cell > 0

\* C17: the supervisor leaves its sleep for a probe's verdict or an
\* evaluation, is at a decision, and has sent a request to base only with
\* base's id in hand; as long as the cell holds no positive id, a wake-up
\* ends in the sleep again with nothing decided, nothing written to the
\* region and nothing sent.
C17_NoActionWithoutBaseId ==
    /\ [][(sup_pc = "sleep" /\ sup_pc' # "sleep") => BaseIdKnown]_vars
    /\ [](sup_pc \in {"eval", "net_wait", "kill_term", "kill_kill"} => BaseIdKnown)
    /\ [](SupRequests # {} => BaseIdKnown)
    /\ [][(os \in Posix /\ sup_pc = "sleep" /\ base_pid_cell <= 0) =>
            /\ sup_pc' = "sleep"
            /\ check_result' = check_result
            /\ health'.parent_requests_kill = health.parent_requests_kill
            /\ SupRequests' = SupRequests]_vars

\* Base is spawned, its pid is not stored yet and the region already holds a
\* matching rule: the supervisor sleeps on.
C17_Witness ==
    /\ os \in Posix
    /\ monitor_handle = "Some" /\ sup_pc = "sleep"
    /\ base_pid_cell = 0
    /\ base.st = "running"
    /\ HeartbeatRule
    /\ check_result = "None"
    /\ SupRequests = {}

\* --------------------------------------------- the supervisor's start and base
BaseSpawnStep == base.st = "none" /\ base'.st # "none"

RegionTeardownStep ==
    \/ shm.view /\ ~shm'.view
    \/ shm.obj = "exists" /\ shm'.obj = "removed"

SupervisorRunning == monitor_handle = "Some" /\ sup_pc # "done"

\* C19: every step that unmaps, unlinks or closes the health region is taken
\* with no supervisor thread running (none was started, or it has ended and
\* the join has returned); and as long as the launcher lives and a
\* supervisor runs, the region is there and mapped.
C19_TeardownAfterJoin ==
    /\ [][RegionTeardownStep => ~SupervisorRunning]_vars
    /\ []((LauncherRuns /\ SupervisorRunning) =>
            (shm.view /\ shm.obj = "exists" /\ health_ptr = "mapped"))

\* Windows has joined a supervisor that killed base, then unmapped the view
\* and closed the mapping.
C19_Witness ==
    /\ os = "windows"
    /\ LauncherExited
    /\ monitor_handle = "Some" /\ sup_pc = "done"
    /\ check_result # "None"
    /\ ~shm.view /\ shm.obj = "removed"

\* ------------------------------------------------------ writers of the region
\* A step of the launcher: the main thread or the supervisor moves on.  The
\* children's steps and the clock's leave both where they are.
LauncherStep == pc' # pc \/ sup_pc' # sup_pc

OverloadFieldsKept ==
    /\ health'.last_success = health.last_success
    /\ health'.consecutive_failures = health.consecutive_failures
    /\ health'.is_alive = health.is_alive
    /\ health'.should_kill_base = health.should_kill_base

\* C20 as stated: no step of the launcher, main thread or supervisor, writes
\* last_success, consecutive_failures, is_alive or should_kill_base.
C20_Original ==
    [][LauncherStep => OverloadFieldsKept]_vars

\* C20 (amended): the launcher writes the region in two places.  Step 1 of
\* run() initialises all five fields, with no overload spawned yet; after
\* that the only write is the supervisor's parent_requests_kill = 1 on its
\* way into the network-failure wait, and last_success, consecutive_failures,
\* is_alive and should_kill_base are left to the overload.
C20_LauncherWritesOnlyKillRequest ==
    /\ [][(LauncherStep /\ pc = "setup_shm" /\ health' # health) =>
            /\ overload.st = "none" /\ overload'.st = "none"
            /\ health'.is_alive = 1
            /\ health'.last_success = current_time
            /\ health'.consecutive_failures = 0
            /\ health'.should_kill_base = 0
            /\ health'.parent_requests_kill = 0]_vars
    /\ [][(LauncherStep /\ pc # "setup_shm") => OverloadFieldsKept]_vars
    /\ [][(LauncherStep /\ pc # "setup_shm" /\ health' # health) =>
            /\ ThresholdExceededEvent
            /\ health.parent_requests_kill = 0
            /\ health'.parent_requests_kill = 1]_vars
    /\ [][ThresholdExceededEvent => health' # health]_vars

\* The supervisor has set its flag next to fields the overload had written.
C20_Witness ==
    /\ sup_pc = "net_wait"
    /\ health.parent_requests_kill = 1
    /\ health.consecutive_failures > 0
    /\ health.should_kill_base = 1
    /\ health.is_alive = 0

\* --------------------------------------------------- a failed spawn of base
\* The launcher has left run() on the path where base could not be spawned:
\* the overload was spawned (and, in sync mode, passed its verification) and
\* no base child ever existed.
BaseSpawnFailedExit ==
    /\ LauncherExited
    /\ overload.st # "none"
    /\ base.st = "none"
    /\ sync_mode => VerificationPassed(overload.status)

\* C21 as stated: when the spawn of base fails the launch is aborted and no
\* overload child is running once the launcher has exited, on every platform.
\* linux.rs returns the error and macos.rs goes on to its exit with code 1,
\* both without a signal to the overload.
C21_Original ==
    BaseSpawnFailedExit => overload.st # "running"

\* ------------------------------------------------ the region at the exit
\* A region was created by this run and its name or mapping object is gone
\* again: shm_unlink on POSIX, UnmapViewOfFile and CloseHandle on Windows.
RegionCreated == shm.obj # "none"
RegionReleased == shm.obj = "removed" /\ (os = "windows" => ~shm.view)

\* C22 as stated, on the first of its exit paths (base was spawned, ended and
\* was waited for): a region that was created and mapped is released before
\* the launcher exits.  linux.rs has no shm_unlink at all.
C22_Original ==
    (LauncherExited /\ base.st = "reaped" /\ RegionCreated /\ health_ptr = "mapped")
        => RegionReleased

\* ------------------------------------------- the temporary payload files
\* Both payloads were written to their temporary files (macOS, Windows).
BothFilesWritten == files.base # "none" /\ files.overload # "none"

\* C23 as stated, its first half: on macOS and Windows both temporary payload
\* files are deleted by the time the launcher exits, on every path on which
\* both were written.  macos.rs returns the error of a failed overload spawn
\* and of an abnormal overload termination without removing either file.
C23_Original ==
    (LauncherExited /\ os # "linux" /\ BothFilesWritten) => files = RemovedFiles

\* ------------------------------------------- a region that is not available
\* Monitoring was asked for and step 1 of run() is over without a mapped
\* region: shm_open / CreateFileMappingA or mmap / MapViewOfFile failed.
RegionFailed ==
    /\ should_enable_health_monitoring(sync_mode, grace_period,
                                       network_failure_kill_count)
    /\ PastSharedMemorySetup
    /\ health_ptr = "null"

OkCalls == {k \in 1..Len(calls) : calls[k].result = "Ok"}

\* The footer at the end of a file, as the build that wrote it lays it out.
WrittenFooter(file) ==
    transmute(SubSeq(file, Len(file) - size_of_ConfigFooter(host) + 1, Len(file)),
              host)

\* The bytes of a file at [offset, offset + size).
Slice(file, offset, size) == SubSeq(file, offset + 1, offset + size)

\* C25: every successful merge_v2 call leaves a file that is exactly
\* stub || base || overload || footer: the footer's magic is KILLCODE,
\* base_offset = |stub|, base_size = |base|, overload_offset = |stub| + |base|,
\* overload_size = |overload|; so base_offset + base_size <= overload_offset,
\* overload_offset + overload_size + sizeof(footer) is the file length, and the
\* two slices at the offsets are the original base and overload bytes.
C25_OutputIsStubBaseOverloadFooter ==
    \A k \in OkCalls :
        LET file == calls[k].file
            stub == catalog[request.base_info]
            size == size_of_ConfigFooter(host)
            footer == WrittenFooter(file) IN
        /\ calls[k].created
        /\ Len(file) = Len(stub) + Len(request.base_data)
                       + Len(request.overload_data) + size
        /\ Slice(file, 0, Len(stub)) = stub
        /\ footer.magic = KILLCODE
        /\ footer.base_offset = Len(stub)
        /\ footer.base_size = Len(request.base_data)
        /\ footer.overload_offset = Len(stub) + Len(request.base_data)
        /\ footer.overload_size = Len(request.overload_data)
        /\ footer.base_offset + footer.base_size <= footer.overload_offset
        /\ footer.overload_offset + footer.overload_size + size = Len(file)
        /\ Slice(file, footer.base_offset, footer.base_size) = request.base_data
        /\ Slice(file, footer.overload_offset, footer.overload_size)
               = request.overload_data

C25_Witness ==
    /\ request.entry = "merge_v2_stop_on_exit"
    /\ request.base_data = <<1, 2, 3>> /\ request.overload_data = <<4>>
    /\ Len(calls) = 2 /\ OkCalls = {1, 2}
    /\ Len(calls[1].file) = 2 + 3 + 1 + size_of_ConfigFooter(host)

\* The policy values an entry point hands to merge_v2: merge_binaries passes
\* 0 for the grace period and for the failure threshold.
PolicyPassed ==
    IF request.entry = "merge_binaries"
    THEN [grace_period |-> 0, sync_mode |-> request.sync_mode,
          network_failure_kill_count |-> 0]
    ELSE [grace_period |-> request.grace_period, sync_mode |-> request.sync_mode,
          network_failure_kill_count |-> request.network_failure_kill_count]

\* C26 (as stated): round trip.  The launcher assembled for a supported
\* target, loaded by that target's stub (last sizeof(footer) bytes, magic,
\* slices at the offsets), yields the original base bytes, overload bytes and
\* the three policy values.
C26_Original ==
    loaded # NotLoaded =>
        loaded = [status |-> "Ok",
                  base_data |-> request.base_data,
                  overload_data |-> request.overload_data,
                  grace_period |-> PolicyPassed.grace_period,
                  sync_mode |-> PolicyPassed.sync_mode,
                  network_failure_kill_count |->
                      PolicyPassed.network_failure_kill_count]

\* C27 (as stated): idempotence.  Two assemblies of the same base bytes,
\* overload bytes, target and policy values yield byte-identical files, every
\* byte of the serialized footer included, padding too.
C27_Original ==
    \A j \in OkCalls, k \in OkCalls : calls[j].file = calls[k].file

\* Base and overload of the request were detected as different platforms.
PayloadsDiffer ==
    \/ request.base_info.os # request.overload_info.os
    \/ request.base_info.arch # request.overload_info.arch

\* No call on the request succeeded or left an output file.
AllCallsRejected ==
    \A k \in 1..Len(calls) : calls[k].result = "Err" /\ ~calls[k].created

\* C28 (as stated): a request whose base and overload differ in detected OS
\* or architecture is rejected with an error and no output file, through
\* every entry point: merge_binaries, merge_v2_stop_on_exit and the
\* /merge/v2/stop-on-exit handler.
C28_Original == PayloadsDiffer => AllCallsRejected

\* C28 (amended): the rejection holds through merge_binaries and through the
\* /merge/v2/stop-on-exit handler, the two entry points that detect both
\* payloads; core merge_v2_stop_on_exit is given the base's platform only.
C28_RejectedWhereDetected ==
    (PayloadsDiffer /\ request.entry \in {"merge_binaries", "handler_merge_v2"})
        => AllCallsRejected

C28_Witness ==
    /\ request.entry = "handler_merge_v2"
    /\ request.base_info = [os |-> "Linux", arch |-> "X86_64"]
    /\ request.overload_info = [os |-> "Linux", arch |-> "AArch64"]
    /\ catalog = ProductionStubs
    /\ Len(request.base_data) <= max_file_size
    /\ Len(calls) = 2
    /\ AllCallsRejected

\* The keys the stub catalog is said to have.
SupportedKeys ==
    {[os |-> o, arch |-> a] : o \in {"Linux", "Windows"},
                              a \in {"X86", "X86_64", "AArch64"}}
    \cup {[os |-> "MacOS", arch |-> a] : a \in {"X86_64", "AArch64"}}

\* C29: merge_v2 selects a stub exactly for Linux x {x86, x86_64, aarch64},
\* Windows x {x86, x86_64, aarch64} and macOS x {x86_64, aarch64}; for every
\* other (OS, architecture), and when the selected stub is empty, it returns an
\* error before the output file is created.
C29_StubSelection ==
    /\ \A info \in BinaryInfos : HasStub(info) <=> info \in SupportedKeys
    /\ DOMAIN catalog = SupportedKeys
    /\ (request.base_info \notin SupportedKeys) => AllCallsRejected
    /\ (request.base_info \in SupportedKeys /\ catalog[request.base_info] = <<>>)
           => AllCallsRejected
    /\ \A k \in OkCalls :
           /\ request.base_info \in SupportedKeys
           /\ catalog[request.base_info] # <<>>
           /\ Slice(calls[k].file, 0, Len(catalog[request.base_info]))
                  = catalog[request.base_info]

C29_Witness ==
    /\ request.entry = "merge_v2_stop_on_exit"
    /\ request.base_info = [os |-> "MacOS", arch |-> "X86"]
    /\ Len(calls) = 2
    /\ AllCallsRejected

\* C30: is_compatible_with(a, b) is true exactly when a.os = b.os and
\* a.arch = b.arch, for all pairs of BinaryInfo values, the pair of the
\* request among them; it is reflexive and symmetric, and two infos that differ
\* only in architecture or only in OS are incompatible.
C30_CompatibilityIsEquality ==
    /\ request.base_info \in BinaryInfos /\ request.overload_info \in BinaryInfos
    /\ is_compatible_with(request.base_info, request.overload_info)
           <=> ~PayloadsDiffer
    /\ \A a \in BinaryInfos :
           /\ is_compatible_with(a, a)
           /\ \A b \in BinaryInfos :
                  /\ is_compatible_with(a, b) <=> (a.os = b.os /\ a.arch = b.arch)
                  /\ is_compatible_with(a, b) <=> is_compatible_with(b, a)
                  /\ (a.os = b.os /\ a.arch # b.arch) => ~is_compatible_with(a, b)
                  /\ (a.os # b.os /\ a.arch = b.arch) => ~is_compatible_with(a, b)

C30_Witness ==
    /\ request.entry = "merge_binaries"
    /\ request.base_info = [os |-> "Linux", arch |-> "X86_64"]
    /\ request.overload_info = [os |-> "Windows", arch |-> "X86_64"]
    /\ catalog = ProductionStubs
    /\ calls = <<Rejected>>

\* C31 (as stated): a launcher assembled by merge_binaries with
\* MergeMode::After runs base first and the overload second: no output of the
\* overload comes before base has been started.
C31_Original ==
    (request.entry = "merge_binaries" /\ request.mode = "After"
     /\ last_out = "overload")
        => base.st # "none"

\* C32 (as stated): on macOS and Windows each payload is materialized at a
\* process-unique path in the temporary directory: two launchers running at
\* the same time never write, execute or delete the same payload file.
C32_Original ==
    \A u \in file_ops, v \in file_ops : u.path = v.path => u.pid = v.pid

\* Base has ended, or its spawn failed and run() went on (macOS).
BaseOver ==
    \/ base.st \in {"zombie", "reaped"}
    \/ pc = "join" /\ base.st = "none"

\* C33 (as stated): whenever the base child has exited, or could not be
\* spawned, the launcher process eventually terminates: the join on the
\* supervisor returns.  Runs in which base's pid is given to another process
\* after base was reaped are left aside.
C33_Original ==
    (<>pid_reused) \/ (BaseOver ~> LauncherExited)

\* A child is spawned by this step, and a supervisor thread by that one.
SpawnStep(child, child_after) == child_after.st = "running" /\ child.st # "running"
ThreadSpawnStep == monitor_handle' = "Some" /\ monitor_handle = "None"

\* C34: per launcher run the overload child is spawned at most once, the base
\* child is spawned at most once and never before the overload has been
\* spawned, and at most one supervisor thread exists at any time.
C34_SpawnedOnceInOrder ==
    /\ [][/\ SpawnStep(overload, overload') =>
                overload.st = "none" /\ pc = "start_overload"
          /\ SpawnStep(base, base') =>
                base.st = "none" /\ pc = "start_base" /\ overload.st # "none"
          /\ ThreadSpawnStep => sup_pc = "none" /\ sup_pc' = "sleep"
          /\ overload.st # "none" => overload'.st # "none"
          /\ base.st # "none" => base'.st # "none"
          /\ sup_pc # "none" => sup_pc' # "none" /\ monitor_handle' = "Some"]_vars
    /\ [](base.st # "none" => overload.st # "none")
    /\ [](sup_pc # "none" <=> monitor_handle = "Some")

C34_Witness ==
    /\ LauncherExited
    /\ overload.st = "reaped" /\ base.st = "reaped"
    /\ monitor_handle = "Some" /\ sup_pc = "done"
    /\ exit_code = 3

\* C35 (as stated): on macOS each payload file is ad-hoc signed after it is
\* written and before its child is spawned, and a failed signing step is fatal
\* (on arm64; the stub's code is the same for both architectures): no child is
\* spawned from a file whose signing failed.
C35_Original ==
    [][os = "macos" =>
          /\ SpawnStep(overload, overload') => files.overload = "signed"
          /\ SpawnStep(base, base') => files.base = "signed"]_vars

\* C36 (as stated): on Linux and macOS the supervisor never sends a signal
\* to base's pid after the main thread has reaped base: every SIGTERM and
\* SIGKILL of the supervisor is sent while the pid still denotes the base child.
C36_Original ==
    os \in Posix =>
        \A r \in RequestsTo("base") : r.by = "sup" => ~r.reaped

(* C37: in sync mode the verification gate waits for the overload and reaps
   it; from then on the launcher sends no signal to the overload's pid, so
   the sibling-termination step after base exits never addresses an
   overload child that has already been reaped. *)
C37_Original ==
    sync_mode => \A r \in RequestsTo("overload") : ~r.reaped

(* C38: a payload pair that has passed the validation of merge_binaries
   (base and overload compatible, base_info.is_supported() true) reaches a
   stub: merge_v2's selection has an arm with an embedded stub for every
   (OS, architecture) that is_supported accepts. *)
C38_Original ==
    (/\ request.entry = "merge_binaries"
     /\ Len(calls) > 0
     /\ is_compatible_with(request.base_info, request.overload_info)
     /\ is_supported(request.base_info))
        => HasStub(request.base_info)

(* C39: once the region is initialised, parent_requests_kill is non-zero
   only if the supervisor has selected the NetworkFailureThreshold rule.  An
   evaluation that returns Ok changes no field of the region and sends no
   signal; the GracePeriodExceeded, OverloadRequestedKill and HeartbeatLost
   branches go on to terminate base and write nothing to the region; and
   the steps that terminate base leave the region as it is. *)
C39_KillRequestOnlyOnThreshold ==
    /\ [](health.parent_requests_kill # 0
            => check_result = "NetworkFailureThreshold")
    /\ [][EvaluateStep =>
            LET r == evaluate_health_status(health, current_time, grace_period,
                                            network_failure_kill_count) IN
            /\ r = "Ok" => /\ health' = health
                           /\ sent' = sent
                           /\ base' = base
                           /\ sup_pc' = "sleep"
            /\ r \in {"GracePeriodExceeded", "OverloadRequestedKill",
                      "HeartbeatLost"}
                   => /\ health' = health
                      /\ check_result' = r
                      /\ sup_pc' = "kill_term"
            /\ health'.parent_requests_kill # health.parent_requests_kill
                   => r = "NetworkFailureThreshold"]_vars
    /\ [][(sup_pc \in {"net_wait", "kill_term", "kill_kill"} /\ sup_pc' # sup_pc)
             => health' = health]_vars

\* The supervisor chose the threshold rule while the rules after it matched as
\* well, raised the flag and has ended its loop after terminating base.
C39_Witness ==
    /\ check_result = "NetworkFailureThreshold"
    /\ sup_pc = "done"
    /\ SupRequests # {}
    /\ health.parent_requests_kill = 1
    /\ health.should_kill_base = 1
    /\ health.is_alive = 0

====
